---- MODULE Spec2Model ----
(***************************************************************************)
(* OncoGenie Lambda handler (src/index.py): the RAG pipeline               *)
(*   risk profile -> build_search_queries -> search_pubmed (per query)     *)
(*   -> deduplicate / cap -> fetch_abstracts -> invoke_bedrock -> response *)
(* modelled as a state machine, one action per step of handler().          *)
(***************************************************************************)
EXTENDS Integers, Sequences, FiniteSets, TLC

VARIABLES
    event,        \* the Lambda event: httpMethod and the shape of its body
    user_data,    \* body["userData"]: a dict, each key absent (<<>>) or present (<<v>>)
    pc,           \* position of handler(): start, plan, search, dedupe, fetch, invoke, done
    queries,      \* result of build_search_queries
    qi,           \* index of the next query of the loop for q in queries
    all_pmids,    \* the accumulator all_pmids
    abstracts,    \* result of fetch_abstracts
    response,     \* the value handler() returns
    calls         \* history: the external requests issued, in order, each with what it met

vars == <<event, user_data, pc, queries, qi, all_pmids, abstracts, response, calls>>

----------------------------------------------------------------------------
(* Bounds of the model *)

\* longest familyHistory list drawn
MaxFamily == 2
\* number of distinct PubMed identifiers the search responses draw from
NumIds == 6
\* most <PubmedArticle> blocks in a fetch response
MaxArticles == 2
\* number of distinct identifiers the <PMID> elements of a fetch response draw from
NumArticleIds == 2

(* Program constants *)

\* queries[:3]
MaxQueries == 3
\* all_pmids[:5]
MaxPmids == 5
\* search_pubmed(q, max_results=2): retmax of the search request
MaxResults == 2
\* defaults of user_data.get("bmi", 22) and user_data.get("age", 40)
DefaultBmi == 22
DefaultAge == 40

----------------------------------------------------------------------------
(* Python helpers *)

\* dict.get(k, default) on a dict whose keys are absent (<<>>) or present (<<v>>)
Get(d, k, default) == IF d[k] = <<>> THEN default ELSE d[k][1]

\* Python None, as returned by dict.get(k) for an absent key
None == "None"

\* not user_data: the dict has no key
IsEmptyDict(d) == \A k \in DOMAIN d : d[k] = <<>>

\* lst[:n]
Prefix(s, n) == SubSeq(s, 1, IF Len(s) < n THEN Len(s) ELSE n)

----------------------------------------------------------------------------
(* build_search_queries *)

FallbackQuery == "lifestyle cancer risk prevention epidemiology"

\* f"hereditary {condition} cancer genetic risk"
HereditaryQuery(condition) == "hereditary " \o condition \o " cancer genetic risk"

\* the loop over family_history without the test of line 81
RECURSIVE FamilyQueries_Unfiltered(_)
FamilyQueries_Unfiltered(fh) ==
    IF fh = <<>> THEN <<>>
    ELSE <<HereditaryQuery(Head(fh))>> \o FamilyQueries_Unfiltered(Tail(fh))

\* the loop over family_history: one query per truthy condition
RECURSIVE FamilyQueries(_)
FamilyQueries(fh) ==
    IF fh = <<>> THEN <<>>
    ELSE (IF Head(fh) # "" THEN <<HereditaryQuery(Head(fh))>> ELSE <<>>)
         \o FamilyQueries(Tail(fh))

SmokingQueries(d) ==
    (IF Get(d, "smokingStatus", None) = "current"
        THEN <<"smoking lung cancer risk factors epidemiology">> ELSE <<>>)
    \o (IF Get(d, "smokingStatus", None) = "former"
        THEN <<"former smoker cancer risk reduction">> ELSE <<>>)

AlcoholQueries(d) ==
    IF Get(d, "alcoholConsumption", "none") \in {"moderate", "heavy"}
        THEN <<"alcohol consumption cancer risk liver colorectal">> ELSE <<>>

BmiQueries(d) ==
    LET bmi == Get(d, "bmi", DefaultBmi) IN
    IF bmi >= 30 THEN <<"obesity BMI cancer risk endometrial breast colorectal">>
    ELSE IF bmi >= 25 THEN <<"overweight cancer risk metabolic syndrome">>
    ELSE <<>>

DietQueries(d) ==
    LET diet == Get(d, "dietaryPattern", "") IN
    IF diet = "western" THEN <<"western diet processed food cancer risk">>
    ELSE IF diet \in {"mediterranean", "vegetarian", "vegan"}
        THEN <<"plant based diet cancer prevention">>
    ELSE <<>>

AgeSexQueries(d) ==
    LET age == Get(d, "age", DefaultAge)
        sex == Get(d, "sex", "other") IN
    (IF age >= 50 /\ sex = "male"
        THEN <<"prostate cancer age risk screening men">> ELSE <<>>)
    \o (IF age >= 40 /\ sex = "female"
        THEN <<"breast cancer age risk screening women mammography">> ELSE <<>>)
    \o (IF age >= 45
        THEN <<"colorectal cancer age risk colonoscopy screening">> ELSE <<>>)

\* the list queries before the fallback and the truncation
MatchedQueries(d) ==
    SmokingQueries(d) \o AlcoholQueries(d) \o BmiQueries(d) \o DietQueries(d)
    \o FamilyQueries(Get(d, "familyHistory", <<>>)) \o AgeSexQueries(d)

\* build_search_queries without the fallback query of lines 94-95
build_search_queries_NoFallback(d) == Prefix(MatchedQueries(d), MaxQueries)

build_search_queries(d) ==
    LET matched == MatchedQueries(d)
        withFallback == IF matched = <<>> THEN <<FallbackQuery>> ELSE matched
    IN Prefix(withFallback, MaxQueries)

----------------------------------------------------------------------------
(* search_pubmed *)

\* What urlopen / json.loads meets: a JSON body carrying esearchresult.idlist
\* as a list ("ok"), a transport failure (URLError), a timeout, a body that
\* json.loads or .get rejects ("malformed"), and a JSON body whose idlist is
\* null ("idlist_null"), which line 114 returns as it is.
SearchFailures == {"transport", "timeout", "malformed"}

\* a function call either returns a value or raises an exception
Return(v) == [raised |-> FALSE, exc |-> "", value |-> v]
Raise(e) == [raised |-> TRUE, exc |-> e, value |-> <<>>]

\* the Python values search_pubmed can return: a list, or None
PyList(l) == [iterable |-> TRUE, items |-> l]
PyNone == [iterable |-> FALSE, items |-> <<>>]

\* try: ... return idlist   except Exception: return []
search_pubmed(o) ==
    IF o.kind = "ok" THEN Return(PyList(o.idlist))
    ELSE IF o.kind = "idlist_null" THEN Return(PyNone)
    ELSE Return(PyList(<<>>))

\* all_pmids.extend(pmids): TypeError when pmids is not iterable
Extend(acc, pmids) ==
    IF pmids.iterable THEN Return(acc \o pmids.items) ELSE Raise("TypeError")

\* search_pubmed trying a failed request once more
SearchCalls_Retry(i, o) ==
    IF o.kind = "ok" THEN <<[api |-> "search", n |-> i, outcome |-> o]>>
    ELSE <<[api |-> "search", n |-> i, outcome |-> o],
           [api |-> "search", n |-> i, outcome |-> o]>>

\* the requests one call of search_pubmed for query number i issues
SearchCalls(i, o) == <<[api |-> "search", n |-> i, outcome |-> o]>>

----------------------------------------------------------------------------
(* Deduplicate, cap at 5: list(dict.fromkeys(all_pmids))[:5] *)

Range(s) == {s[i] : i \in 1..Len(s)}

\* dict.fromkeys: keys are inserted in order, a key already present keeps its place
RECURSIVE FromKeys(_, _)
FromKeys(s, keys) ==
    IF s = <<>> THEN keys
    ELSE FromKeys(Tail(s), IF Head(s) \in Range(keys) THEN keys ELSE Append(keys, Head(s)))

\* the cap applied before the deduplication: list(dict.fromkeys(all_pmids[:5]))
DedupeCap_CapFirst(pmids) == FromKeys(Prefix(pmids, MaxPmids), <<>>)

DedupeCap(pmids) == Prefix(FromKeys(pmids, <<>>), MaxPmids)

\* the loop left after its first iteration
LoopDone_AfterFirst == qi > 1

\* the for loop over queries has run out
LoopDone == qi > Len(queries)

----------------------------------------------------------------------------
(* fetch_abstracts *)

\* Raw element content is a sequence of tokens: markup tags, whitespace, text.
MarkupTags == {"<i>", "</i>"}
Whitespace == {" "}

\* re.sub(r"<[^>]+>", "", raw)
RemoveTags(raw) == SelectSeq(raw, LAMBDA t : t \notin MarkupTags)

\* str.strip()
RECURSIVE LStrip(_)
LStrip(s) == IF s # <<>> /\ Head(s) \in Whitespace THEN LStrip(Tail(s)) ELSE s
RECURSIVE RStrip(_)
RStrip(s) ==
    IF s # <<>> /\ s[Len(s)] \in Whitespace THEN RStrip(SubSeq(s, 1, Len(s) - 1)) ELSE s
Strip(s) == RStrip(LStrip(s))

\* the tokens as one string
RECURSIVE Join(_)
Join(s) == IF s = <<>> THEN "" ELSE Head(s) \o Join(Tail(s))

StripMarkup(raw) == Join(Strip(RemoveTags(raw)))

\* One <PubmedArticle> block: each of title, abstract, pmid, year is absent (the
\* re.search finds nothing) or present with its group(1). A record is appended
\* when title_match and abstract_match are both match objects.
\* url and doi are both the record URL built from pmid ("unknown" when absent),
\* so the pmid field stands for them.
ParseArticle(article) ==
    IF article.title # <<>> /\ article.abstract # <<>>
    THEN <<[title    |-> StripMarkup(article.title[1]),
            abstract |-> StripMarkup(article.abstract[1]),
            pmid     |-> article.pmid,
            year     |-> article.year]>>
    ELSE <<>>

RECURSIVE ParseArticles(_)
ParseArticles(articles) ==
    IF articles = <<>> THEN <<>>
    ELSE ParseArticle(Head(articles)) \o ParseArticles(Tail(articles))

FetchFailures == {"transport", "timeout", "decode"}

\* fetch_abstracts without the except clause of lines 156-157
fetch_abstracts_Raises(pmids, o) ==
    IF pmids = <<>> THEN Return(<<>>)
    ELSE IF o.kind = "ok" THEN Return(ParseArticles(o.articles))
    ELSE Raise("URLError")

fetch_abstracts(pmids, o) ==
    IF pmids = <<>> THEN Return(<<>>)
    ELSE IF o.kind = "ok" THEN Return(ParseArticles(o.articles))
    ELSE Return(<<>>)

\* the requests one call of fetch_abstracts issues
FetchCalls(pmids, o) ==
    IF pmids = <<>> THEN <<>>
    ELSE <<[api |-> "fetch", n |-> Len(pmids), outcome |-> o]>>

----------------------------------------------------------------------------
(* invoke_bedrock *)

\* raw_text is a sequence of tokens: code fences, whitespace, JSON values, prose
\* the markdown code fences: three backquotes, with or without the word json
Fences == {"~~~json", "~~~"}
JsonObjects == {"{report}"}
JsonValues == JsonObjects \cup {"[list]"}

\* re.sub of the two fences by "", then .strip()
StripFences(raw) == Strip(SelectSeq(raw, LAMBDA t : t \notin Fences))

\* json.loads accepts exactly one JSON value
Parseable(text) == Len(text) = 1 /\ text[1] \in JsonValues

\* invoke_bedrock raising one exception for every failure
invoke_bedrock_WrapsAll(o) ==
    IF o.kind = "responded" /\ Parseable(StripFences(o.raw_text))
    THEN Return(StripFences(o.raw_text)[1])
    ELSE Raise("JSONDecodeError")

invoke_bedrock(o) ==
    IF o.kind = "ClientError" THEN Raise("ClientError")
    ELSE IF o.kind = "BotoCoreError" THEN Raise("BotoCoreError")
    ELSE IF o.kind = "bad_envelope" THEN Raise("UnboundLocalError")
    ELSE IF Parseable(StripFences(o.raw_text)) THEN Return(StripFences(o.raw_text)[1])
    ELSE Raise("JSONDecodeError")

\* the requests one call of invoke_bedrock issues
BedrockCalls(o) == <<[api |-> "bedrock", n |-> 0, outcome |-> o]>>

----------------------------------------------------------------------------
(* handler *)

NoResponse == [statusCode |-> 0, error |-> "", report |-> <<>>]
Response(code, err) == [statusCode |-> code, error |-> err, report |-> <<>>]

\* except Exception as e: statusCode 500, error str(e)
UnhandledError(exc) == Response(500, exc)

\* lines 259-267: attach the abstracts and the request id, return 200
Report(llm_result, abs) ==
    IF llm_result \in JsonObjects
    THEN [statusCode |-> 200, error |-> "",
          report |-> <<[insights |-> llm_result, searchedAbstracts |-> abs,
                        timestamp |-> "aws_request_id"]>>]
    ELSE UnhandledError("TypeError")

\* lines 257-275: what handler returns once invoke_bedrock met outcome o
InvokeResponse(o, abs) ==
    LET r == invoke_bedrock(o) IN
    IF r.raised THEN UnhandledError(r.exc) ELSE Report(r.value, abs)

\* lines 217-229
Start ==
    /\ pc = "start"
    /\ IF event.httpMethod = "OPTIONS"
          THEN pc' = "done" /\ response' = Response(200, "")
       ELSE IF event.body = "invalid"
          THEN pc' = "done" /\ response' = UnhandledError("JSONDecodeError")
       ELSE IF IsEmptyDict(user_data)
          THEN pc' = "done" /\ response' = Response(400, "userData is required")
       ELSE pc' = "plan" /\ response' = response
    /\ UNCHANGED <<event, user_data, queries, qi, all_pmids, abstracts, calls>>

\* line 232 (and all_pmids = [] of line 236)
Plan ==
    /\ pc = "plan"
    /\ queries' = build_search_queries(user_data)
    /\ qi' = 1
    /\ all_pmids' = <<>>
    /\ pc' = "search"
    /\ UNCHANGED <<event, user_data, abstracts, response, calls>>

\* lines 237-239: one iteration of the loop
Search(Outcomes) ==
    /\ pc = "search"
    /\ ~LoopDone
    /\ \E o \in Outcomes :
         LET r == search_pubmed(o)
             x == IF r.raised THEN r ELSE Extend(all_pmids, r.value) IN
         /\ calls' = calls \o SearchCalls(qi, o)
         /\ IF x.raised
               THEN /\ pc' = "done"
                    /\ response' = UnhandledError(x.exc)
                    /\ UNCHANGED <<all_pmids, qi>>
               ELSE /\ all_pmids' = x.value
                    /\ qi' = qi + 1
                    /\ UNCHANGED <<pc, response>>
    /\ UNCHANGED <<event, user_data, queries, abstracts>>

\* line 242
Dedupe ==
    /\ pc = "search"
    /\ LoopDone
    /\ all_pmids' = DedupeCap(all_pmids)
    /\ pc' = "fetch"
    /\ UNCHANGED <<event, user_data, queries, qi, abstracts, response, calls>>

\* lines 246-254
Fetch(Outcomes) ==
    /\ pc = "fetch"
    /\ \E o \in Outcomes :
         LET r == fetch_abstracts(all_pmids, o) IN
         /\ calls' = calls \o FetchCalls(all_pmids, o)
         /\ IF r.raised
               THEN /\ pc' = "done"
                    /\ response' = UnhandledError(r.exc)
                    /\ UNCHANGED abstracts
               ELSE /\ abstracts' = r.value
                    /\ IF r.value = <<>>
                          THEN /\ pc' = "done"
                               /\ response' =
                                    Response(502, "No abstracts could be retrieved from PubMed")
                          ELSE /\ pc' = "invoke"
                               /\ UNCHANGED response
    /\ UNCHANGED <<event, user_data, queries, qi, all_pmids>>

\* lines 257-275
Invoke(Outcomes) ==
    /\ pc = "invoke"
    /\ \E o \in Outcomes :
         /\ calls' = calls \o BedrockCalls(o)
         /\ response' = InvokeResponse(o, abstracts)
    /\ pc' = "done"
    /\ UNCHANGED <<event, user_data, queries, qi, all_pmids, abstracts>>

----------------------------------------------------------------------------
(* Inputs: the events, profiles and responses of the external services *)

Opt(S) == {<<>>} \cup {<<v>> : v \in S}

SeqsUpTo(S, n) == UNION {[1..k -> S] : k \in 0..n}

\* familyHistory entries: an empty string and a condition name
Conditions == {"", "breast"}

AllProfiles ==
    [smokingStatus      : Opt({"current", "former", "never"}),
     alcoholConsumption : Opt({"none", "moderate", "heavy"}),
     bmi                : Opt({24, 25, 29, 30}),
     dietaryPattern     : Opt({"western", "vegan", "keto"}),
     familyHistory      : Opt(SeqsUpTo(Conditions, MaxFamily)),
     age                : Opt({39, 40, 44, 45, 49, 50}),
     sex                : Opt({"male", "female", "other"})]

EmptyDict ==
    [smokingStatus |-> <<>>, alcoholConsumption |-> <<>>, bmi |-> <<>>,
     dietaryPattern |-> <<>>, familyHistory |-> <<>>, age |-> <<>>, sex |-> <<>>]

\* a profile no clause matches, one matching two clauses, one matching four
ProfileDefault == [EmptyDict EXCEPT !.sex = <<"other">>]
ProfileSmoker == [EmptyDict EXCEPT !.smokingStatus = <<"current">>,
                                   !.alcoholConsumption = <<"heavy">>]
ProfileFamily == [EmptyDict EXCEPT !.familyHistory = <<(<<"breast", "">>)>>,
                                   !.bmi = <<30>>, !.age = <<50>>, !.sex = <<"female">>]
PipelineProfiles == {EmptyDict, ProfileDefault, ProfileSmoker, ProfileFamily}

Events ==
    {[httpMethod |-> "OPTIONS", body |-> "valid"],
     [httpMethod |-> "POST", body |-> "invalid"],
     [httpMethod |-> "POST", body |-> "valid"]}

SearchOk(l) == [kind |-> "ok", idlist |-> l]
SearchFail(f) == [kind |-> f, idlist |-> <<>>]

\* every idlist of at most retmax identifiers, and every failure
AllSearchOutcomes ==
    {SearchOk(l) : l \in SeqsUpTo(1..NumIds, MaxResults)}
    \cup {SearchFail(f) : f \in SearchFailures \cup {"idlist_null"}}

SmallSearchOutcomes ==
    {SearchOk(<<>>), SearchOk(<<1>>), SearchOk(<<1, 2>>)}
    \cup {SearchFail(f) : f \in SearchFailures \cup {"idlist_null"}}

\* element content: markup and whitespace only, or text inside markup
RawTitles == {<<"<i>", "</i>", " ">>, <<" ", "<i>", "Title", "</i>">>}
RawAbstracts == {<<" ">>, <<"Body", "<i>", "</i>", " ">>}

Articles ==
    [title    : Opt(RawTitles),
     abstract : Opt(RawAbstracts),
     pmid     : Opt(1..NumArticleIds),
     year     : Opt({"2020"})]

FetchOk(a) == [kind |-> "ok", articles |-> a]
FetchFail(f) == [kind |-> f, articles |-> <<>>]

AllFetchOutcomes ==
    {FetchOk(a) : a \in SeqsUpTo(Articles, MaxArticles)}
    \cup {FetchFail(f) : f \in FetchFailures}

GoodArticle(id) ==
    [title |-> <<(<<" ", "<i>", "Title", "</i>">>)>>,
     abstract |-> <<(<<"Body", "<i>", "</i>", " ">>)>>,
     pmid |-> <<id>>, year |-> <<"2020">>]
NoAbstractArticle(id) == [GoodArticle(id) EXCEPT !.abstract = <<>>]

SmallFetchOutcomes ==
    {FetchOk(<<>>), FetchOk(<<NoAbstractArticle(1)>>), FetchOk(<<GoodArticle(1)>>),
     FetchOk(<<GoodArticle(1), GoodArticle(2)>>)}
    \cup {FetchFail(f) : f \in FetchFailures}

RawTexts ==
    {<<"{report}">>,
     <<"~~~json", " ", "{report}", " ", "~~~">>,
     <<"prose", "{report}">>,
     <<"~~~json", "prose", "~~~">>,
     <<>>,
     <<"[list]">>}

BedrockOutcomes ==
    {[kind |-> k, raw_text |-> <<>>] : k \in {"ClientError", "BotoCoreError", "bad_envelope"}}
    \cup {[kind |-> "responded", raw_text |-> t] : t \in RawTexts}

----------------------------------------------------------------------------
(* Specifications *)

InitWith(E, P, at) ==
    /\ event \in E
    /\ user_data \in (IF event.httpMethod = "POST" /\ event.body = "valid"
                         THEN P ELSE {EmptyDict})
    /\ pc = at
    /\ queries = <<>>
    /\ qi = 1
    /\ all_pmids = <<>>
    /\ abstracts = <<>>
    /\ response = NoResponse
    /\ calls = <<>>

\* the whole handler, on a few profiles and a few responses of each service
Init == InitWith(Events, PipelineProfiles, "start")
Next ==
    \/ Start
    \/ Plan
    \/ Search(SmallSearchOutcomes)
    \/ Dedupe
    \/ Fetch(SmallFetchOutcomes)
    \/ Invoke(BedrockOutcomes)
Spec == Init /\ [][Next]_vars

\* build_search_queries called on every profile
InitPlan == InitWith({[httpMethod |-> "POST", body |-> "valid"]}, AllProfiles, "plan")
NextPlan == Plan
SpecPlan == InitPlan /\ [][NextPlan]_vars

\* the handler up to the deduplication, on every search response
NextRetrieve ==
    \/ Start
    \/ Plan
    \/ Search(AllSearchOutcomes)
    \/ Dedupe
SpecRetrieve == Init /\ [][NextRetrieve]_vars

\* the handler on one profile, on every fetch response
InitFetch == InitWith({[httpMethod |-> "POST", body |-> "valid"]}, {ProfileDefault}, "start")
NextFetch ==
    \/ Start
    \/ Plan
    \/ Search(SmallSearchOutcomes)
    \/ Dedupe
    \/ Fetch(AllFetchOutcomes)
    \/ Invoke(BedrockOutcomes)
SpecFetch == InitFetch /\ [][NextFetch]_vars

----------------------------------------------------------------------------
(* Claims about build_search_queries, checked under SpecPlan *)

Planned == pc = "search"

\* C1: for every profile, missing fields included, build_search_queries returns
\* between 1 and 3 queries and every one of them is a non-empty string.
C1_QueriesBounded ==
    Planned =>
        /\ Len(queries) >= 1
        /\ Len(queries) <= 3
        /\ \A i \in 1..Len(queries) : queries[i] # "" /\ Len(queries[i]) > 0

\* a profile with missing fields and an empty family entry, planned into 3 queries
C1_Witness ==
    /\ Planned
    /\ Len(queries) = 3
    /\ user_data.bmi = <<>>
    /\ user_data.familyHistory # <<>>
    /\ "" \in Range(user_data.familyHistory[1])

\* The reference list of the claim: the clauses in priority order, as
\* (condition, query) pairs, with one hereditary query per element of entries.
Chosen(pairs) ==
    LET kept == SelectSeq(pairs, LAMBDA p : p[1]) IN [i \in 1..Len(kept) |-> kept[i][2]]

ReferenceList(d, entries) ==
    LET smoking == IF d.smokingStatus = <<>> THEN "None" ELSE d.smokingStatus[1]
        alcohol == IF d.alcoholConsumption = <<>> THEN "none" ELSE d.alcoholConsumption[1]
        bmi     == IF d.bmi = <<>> THEN 22 ELSE d.bmi[1]
        diet    == IF d.dietaryPattern = <<>> THEN "" ELSE d.dietaryPattern[1]
        age     == IF d.age = <<>> THEN 40 ELSE d.age[1]
        sex     == IF d.sex = <<>> THEN "other" ELSE d.sex[1]
    IN Chosen(<<
          <<smoking = "current", "smoking lung cancer risk factors epidemiology">>,
          <<smoking = "former", "former smoker cancer risk reduction">>,
          <<alcohol = "moderate" \/ alcohol = "heavy",
            "alcohol consumption cancer risk liver colorectal">>,
          <<bmi >= 30, "obesity BMI cancer risk endometrial breast colorectal">>,
          <<bmi >= 25 /\ bmi < 30, "overweight cancer risk metabolic syndrome">>,
          <<diet = "western", "western diet processed food cancer risk">>,
          <<diet \in {"mediterranean", "vegetarian", "vegan"},
            "plant based diet cancer prevention">> >>)
       \o [i \in 1..Len(entries) |-> "hereditary " \o entries[i] \o " cancer genetic risk"]
       \o Chosen(<<
          <<age >= 50 /\ sex = "male", "prostate cancer age risk screening men">>,
          <<age >= 40 /\ sex = "female",
            "breast cancer age risk screening women mammography">>,
          <<age >= 45, "colorectal cancer age risk colonoscopy screening">> >>)

FamilyEntries(d) == IF d.familyHistory = <<>> THEN <<>> ELSE d.familyHistory[1]

MatchesReference(ref) ==
    /\ ref # <<>> => queries = SubSeq(ref, 1, IF Len(ref) < 3 THEN Len(ref) ELSE 3)
    /\ (queries = <<"lifestyle cancer risk prevention epidemiology">>) <=> (ref = <<>>)

\* C2 as stated: the result is the first 3 entries of the reference list that
\* holds one hereditary query per entry of familyHistory, and is the single
\* fallback query exactly when no clause matches.
C2_Original ==
    Planned => MatchesReference(ReferenceList(user_data, FamilyEntries(user_data)))

\* C2 as amended: the same with one hereditary query per non-empty entry of
\* familyHistory (an empty entry matches no clause).
C2_NonEmptyEntries ==
    Planned =>
        MatchesReference(ReferenceList(user_data,
            SelectSeq(FamilyEntries(user_data), LAMBDA c : c # "")))

\* more than 3 clauses match, among them a family entry after an empty one
C2_Witness ==
    /\ Planned
    /\ FamilyEntries(user_data) = <<"", "breast">>
    /\ user_data.smokingStatus = <<"current">>
    /\ user_data.age = <<50>>
    /\ queries[2] = "hereditary breast cancer genetic risk"
    /\ Len(queries) = 3

----------------------------------------------------------------------------
(* Claims about the search loop and the deduplication, under SpecRetrieve *)

OfApi(api) == SelectSeq(calls, LAMBDA c : c.api = api)

RECURSIVE Flatten(_)
Flatten(ss) == IF ss = <<>> THEN <<>> ELSE Head(ss) \o Flatten(Tail(ss))

\* the identifier lists of the queries, in query order, a failing query's being empty
QueryIdLists ==
    LET sc == OfApi("search") IN
    [i \in 1..Len(sc) |-> IF sc[i].outcome.kind = "ok" THEN sc[i].outcome.idlist ELSE <<>>]

\* s without every element that occurred before
RECURSIVE FirstOccurrencesFrom(_, _)
FirstOccurrencesFrom(s, i) ==
    IF i > Len(s) THEN <<>>
    ELSE (IF \E j \in 1..(i - 1) : s[j] = s[i] THEN <<>> ELSE <<s[i]>>)
         \o FirstOccurrencesFrom(s, i + 1)

\* C3: the identifier list handed to the fetch step is the concatenation of the
\* queries' identifier lists in query order, duplicates removed keeping the first
\* occurrence, cut to the first 5; it holds no identifier twice and at most 5.
C3_DedupeCap ==
    pc = "fetch" =>
        LET firsts == FirstOccurrencesFrom(Flatten(QueryIdLists), 1) IN
        /\ all_pmids = SubSeq(firsts, 1, IF Len(firsts) < 5 THEN Len(firsts) ELSE 5)
        /\ \A i, j \in 1..Len(all_pmids) : all_pmids[i] = all_pmids[j] => i = j
        /\ Len(all_pmids) <= 5

\* the example of the spec: [1,2] for query 1 and [2,3] for query 2 give [1,2,3]
C3_Witness ==
    /\ pc = "fetch"
    /\ Len(QueryIdLists) >= 2
    /\ QueryIdLists[1] = <<1, 2>>
    /\ QueryIdLists[2] = <<2, 3>>
    /\ SubSeq(all_pmids, 1, 3) = <<1, 2, 3>>

\* the handler has left the search loop, by its end or by an exception
LoopLeft == pc \in {"fetch", "invoke"} \/ (pc = "done" /\ Len(calls) > 0)

\* C5 as stated: whichever searches fail (transport failure, timeout, malformed
\* response), each failing query contributes no identifier, the batch is not
\* aborted (every planned query is searched and the handler goes on to the
\* fetch step), and the identifiers of the other queries are accumulated as if
\* the failing ones had returned nothing.
C5_Original ==
    /\ pc = "search" =>
          /\ all_pmids = Flatten(QueryIdLists)
          /\ response = NoResponse
          /\ qi = Len(OfApi("search")) + 1
    /\ LoopLeft =>
          /\ Len(OfApi("search")) = Len(queries)
          /\ \A i \in 1..Len(queries) : OfApi("search")[i].n = i
          /\ response.statusCode # 500
    /\ pc = "fetch" =>
          \A id \in Range(Flatten(QueryIdLists)) :
              id \in Range(all_pmids) \/ Len(all_pmids) = 5

----------------------------------------------------------------------------
(* Claims about the parsed records, under SpecFetch *)

NoSharedIdentifier(records) ==
    \A i, j \in 1..Len(records) : records[i].pmid = records[j].pmid => i = j

\* C6 as stated: every record fetch_abstracts returns has a non-empty title and
\* a non-empty abstract after markup stripping (a block whose title or abstract
\* is missing or empty is dropped).
C6_Original ==
    \A i \in 1..Len(abstracts) : abstracts[i].title # "" /\ abstracts[i].abstract # ""

\* C7 as stated: the evidence set passed to synthesis and attached to the
\* report holds no two records with the same identifier and at most 5 records.
C7_Original ==
    /\ pc \in {"invoke", "done"} =>
          NoSharedIdentifier(abstracts) /\ Len(abstracts) <= 5
    /\ response.report # <<>> =>
          /\ NoSharedIdentifier(response.report[1].searchedAbstracts)
          /\ Len(response.report[1].searchedAbstracts) <= 5

----------------------------------------------------------------------------
(* Claims about the whole handler, under Spec *)

\* fetch_abstracts has returned
Retrieved ==
    /\ queries # <<>>
    /\ pc \in {"invoke", "done"}
    /\ \A c \in Range(OfApi("search")) : c.outcome.kind # "idlist_null"

FormatError(c) ==
    /\ c.api = "bedrock"
    /\ c.outcome.kind = "responded"
    /\ LET text == LStrip(RStrip(SelectSeq(c.outcome.raw_text,
                                           LAMBDA t : t # "~~~json" /\ t # "~~~")))
       IN ~(Len(text) = 1 /\ text[1] \in {"{report}", "[list]"})

\* what the handler returns when the inference call itself fails with exception k
ServiceErrorResponse(k) == InvokeResponse([kind |-> k, raw_text |-> <<>>], abstracts)

\* C8: when the inference service responds with text that is not JSON after
\* fence stripping, the invocation ends in a failure (status 500) whose error is
\* that of the JSON decoding failure, which differs from the response returned
\* when the inference call itself fails, and no report is returned.
C8_FormatErrorDistinct ==
    (pc = "done" /\ \E i \in 1..Len(calls) : FormatError(calls[i])) =>
        /\ response.report = <<>>
        /\ response.statusCode = 500
        /\ response.error = "JSONDecodeError"
        /\ \A k \in {"ClientError", "BotoCoreError"} : response # ServiceErrorResponse(k)

\* fenced text that is not JSON was returned and the invocation has ended
C8_Witness ==
    /\ pc = "done"
    /\ OfApi("bedrock") # <<>>
    /\ OfApi("bedrock")[1].outcome.raw_text = <<"~~~json", "prose", "~~~">>
    /\ response.statusCode = 500

Rank(c) == CASE c.api = "search" -> 1 [] c.api = "fetch" -> 2 [] c.api = "bedrock" -> 3

\* C9: the external calls are ordered: the fetch request comes after the search
\* of every planned query, the inference request after the fetch and the parse,
\* and no search follows the fetch.
C9_CallOrder ==
    /\ \A i, j \in 1..Len(calls) : i < j => Rank(calls[i]) <= Rank(calls[j])
    /\ (pc = "fetch" \/ OfApi("fetch") # <<>>) =>
          {c.n : c \in Range(OfApi("search"))} = 1..Len(queries)
    /\ OfApi("bedrock") # <<>> =>
          /\ OfApi("fetch") # <<>>
          /\ abstracts # <<>>
          /\ abstracts = (fetch_abstracts(all_pmids, OfApi("fetch")[1].outcome)).value

\* three searches, then the fetch, then the inference request
C9_Witness ==
    /\ Len(calls) = 5
    /\ Len(queries) = 3
    /\ calls[4].api = "fetch"
    /\ calls[5].api = "bedrock"

\* C10: under any failures every external call is attempted once and never
\* re-issued: at most one search per planned query (at most 3), at most one
\* batched fetch whatever the number of identifiers, at most one inference request.
C10_NoRetry ==
    /\ \A i, j \in 1..Len(calls) :
          (calls[i].api = "search" /\ calls[j].api = "search" /\ calls[i].n = calls[j].n)
             => i = j
    /\ Len(OfApi("search")) <= Len(queries)
    /\ Len(OfApi("search")) <= 3
    /\ Len(OfApi("fetch")) <= 1
    /\ Len(OfApi("bedrock")) <= 1

\* a failed search, one fetch for two identifiers, a failed inference call
C10_Witness ==
    /\ pc = "done"
    /\ Len(queries) = 3
    /\ OfApi("search")[1].outcome.kind = "transport"
    /\ Len(OfApi("fetch")) = 1
    /\ OfApi("fetch")[1].n = 2
    /\ Len(OfApi("bedrock")) = 1
    /\ OfApi("bedrock")[1].outcome.kind = "ClientError"
    /\ response.statusCode = 500

====
